---- MODULE Spec2Model ----
(***************************************************************************)
(* Model of src/fastapi-backend/main.py: the FHIR API backend.  One inbound *)
(* request at a time is followed from its arrival to the value its handler  *)
(* returns.  Strings that the code inspects character by character (ids,    *)
(* medication names, substance texts, search fields) are sequences of       *)
(* one-character strings.  An optional JSON member, or a parameter that may *)
(* be None, is a sequence of length 0 (absent) or 1 (present).              *)
(*                                                                         *)
(* A handler's "return body, status" is recorded as result.status = status; *)
(* a plain "return body" is recorded with status 200.                       *)
(***************************************************************************)
EXTENDS Integers, Sequences, FiniteSets, TLC

VARIABLES pc, req, checked, calls, responses, result

vars == <<pc, req, checked, calls, responses, result>>

-----------------------------------------------------------------------------
(* Bounds of the model. *)

MaxIdLen == 2

MaxEntries == 2

-----------------------------------------------------------------------------
(* Characters and strings. *)

UpperChars == <<"A","B","C","D","E","F","G","H","I","J","K","L","M",
                "N","O","P","Q","R","S","T","U","V","W","X","Y","Z">>

LowerChars == <<"a","b","c","d","e","f","g","h","i","j","k","l","m",
                "n","o","p","q","r","s","t","u","v","w","x","y","z">>

DigitChars == <<"0","1","2","3","4","5","6","7","8","9">>

Range(s) == { s[i] : i \in DOMAIN s }

\* The character class [A-Za-z0-9\-\.] of the pattern.
SafeChars == Range(UpperChars) \cup Range(LowerChars) \cup Range(DigitChars)
                \cup {"-", "."}

\* str.lower() on one character.
LowerChar(c) ==
    IF c \in Range(UpperChars)
    THEN LowerChars[CHOOSE i \in DOMAIN UpperChars : UpperChars[i] = c]
    ELSE c

\* str.lower()
lower(s) == [i \in DOMAIN s |-> LowerChar(s[i])]

\* needle in hay  (Python substring test on str)
Contains(needle, hay) ==
    \E k \in 0..(Len(hay) - Len(needle)) :
        \A i \in 1..Len(needle) : hay[k + i] = needle[i]

AllSafe(s) == \A i \in DOMAIN s : s[i] \in SafeChars

\* re.match(r"^[A-Za-z0-9\-\.]+$", s) is not None.  Python's "$" matches at
\* the end of the string and also just before a newline that ends the string.
PatternMatches(s) ==
    \/ Len(s) >= 1 /\ AllSafe(s)
    \/ Len(s) >= 2 /\ s[Len(s)] = "\n" /\ AllSafe(SubSeq(s, 1, Len(s) - 1))

\* validate_fhir_id: TRUE when it returns, FALSE when it raises
\* HTTPException(status_code=400, detail="Invalid ID format provided.").
validate_fhir_id(resource_id) == PatternMatches(resource_id)

\* All strings over alphabet A of length at most n.
StringsUpTo(A, n) == UNION { [1..k -> A] : k \in 0..n }

IdAlphabet == {"a", "Z", "5", "-", ".", "/", " ", "\n"}

Ids == StringsUpTo(IdAlphabet, MaxIdLen)

-----------------------------------------------------------------------------
(* Optional values and decoded JSON. *)

None == <<>>

Some(v) == <<v>>

IsPresent(o) == Len(o) = 1

\* dict.get(key, default) on a member that is absent (<<>>) or present (<<v>>).
Get(o, default) == IF IsPresent(o) THEN o[1] ELSE default

\* Members of one AllergyIntolerance resource that the matcher reads.
CodeValues(texts) == [text : {None} \cup { Some(t) : t \in texts }]

ReactionLists == { <<>> } \cup { <<r>> : r \in [severity : {None, Some("severe")}] }

NoteLists == { <<>> } \cup { <<n>> : n \in [text : {None, Some("rash")}] }

Resources(texts) ==
    [code     : {None} \cup { Some(c) : c \in CodeValues(texts) },
     reaction : {None} \cup { Some(l) : l \in ReactionLists },
     note     : {None} \cup { Some(l) : l \in NoteLists }]

EntryValues(texts) == [resource : {None} \cup { Some(r) : r \in Resources(texts) }]

\* A decoded JSON object: only its "entry" member is read by this program.
BundlesOf(entries, n) ==
    [entry : {None} \cup { Some(l) : l \in UNION { [1..k -> entries] : k \in 0..n }}]

SubstanceTexts == { <<>>, <<"A", "b">>, <<"b">> }

Medications == { <<>>, <<"a">>, <<"a", "B">>, <<"B">> }

Bundles == BundlesOf(EntryValues(SubstanceTexts), MaxEntries)

-----------------------------------------------------------------------------
(* Values returned by the handlers. *)

Blank ==
    [status |-> 0, kind |-> "none", error |-> "", id |-> <<>>, code |-> 0,
     payload |-> None, payload2 |-> None, safe |-> FALSE, conflicts |-> None,
     recommendation |-> "", medication |-> <<>>]

\* return {"error": "Internal Server Error"}, 500
InternalServerError ==
    [Blank EXCEPT !.status = 500, !.kind = "error", !.error = "Internal Server Error"]

\* return response.json()
JsonBody(payload) ==
    [Blank EXCEPT !.status = 200, !.kind = "json", !.payload = Some(payload)]

\* return {"error": f"FHIR Server error: {str(e)}"}, e.response.status_code
FhirServerError(code) ==
    [Blank EXCEPT !.status = code, !.kind = "error", !.error = "FHIR Server error",
                  !.code = code]

\* return {"error": "Request timeout ..."}, 504
RequestTimeout ==
    [Blank EXCEPT !.status = 504, !.kind = "error", !.error = "Request timeout"]

\* return {"error": f"Patient {patient_id} not found"}, 404
PatientNotFound(patient_id) ==
    [Blank EXCEPT !.status = 404, !.kind = "error", !.error = "Patient not found",
                  !.id = patient_id]

\* return {"error": f"No allergies found for patient {patient_id}"}, 404
NoAllergiesFound(patient_id) ==
    [Blank EXCEPT !.status = 404, !.kind = "error", !.error = "No allergies found for patient",
                  !.id = patient_id]

-----------------------------------------------------------------------------
(* The upstream's answer to one requests.get(...). *)

Statuses == {200, 404, 500}

Timeout == [kind |-> "timeout", status |-> 0, body |-> None]

ConnectionError == [kind |-> "connerror", status |-> 0, body |-> None]

\* body = None: the response body is not parseable JSON.
Response(status, body) == [kind |-> "response", status |-> status, body |-> body]

\* requests.get(...) raised instead of returning a response.
GetRaises(o) == o.kind # "response"

\* response.raise_for_status() raises requests.exceptions.HTTPError
RaiseForStatus(o) == o.status >= 400 /\ o.status < 600

\* response.json() raises
JsonRaises(o) == ~IsPresent(o.body)

-----------------------------------------------------------------------------
(* search_patients: the query-parameter mapping. *)

OptionalKeys == {"name", "family", "given", "birthdate", "gender", "identifier", "_id"}

\* max_length of each Query(...) declaration.
MaxLength(k) ==
    CASE k = "birthdate" -> 20
      [] k = "gender"    -> 10
      [] k = "_id"       -> 64
      [] OTHER           -> 50

\* The test "if name is not None:" in place of "if name:".
SuppliedNotNone(v) == IsPresent(v)

\* "if name:" and its siblings: the value is neither None nor the empty string.
Supplied(v) == IsPresent(v) /\ Len(v[1]) > 0

\* params = {"_count": _count}, then one key per supplied field.
search_params(fields, count) ==
    [k \in {"_count"} \cup { f \in OptionalKeys : Supplied(fields[f]) } |->
        IF k = "_count" THEN count ELSE fields[k][1]]

\* The Query(...) constraints of search_patients' signature, which the
\* framework enforces before the handler is entered.
SearchAccepted(fields, count, page) ==
    /\ \A k \in OptionalKeys : IsPresent(fields[k]) => Len(fields[k][1]) <= MaxLength(k)
    /\ count >= 1 /\ count <= 100
    /\ page >= 1

\* The Query(...) constraints of check_prescription's signature.
PrescriptionAccepted(patient_id, medication) ==
    Len(patient_id) <= 64 /\ Len(medication) <= 100

-----------------------------------------------------------------------------
(* Outbound GETs. *)

NoParams == [k \in {} |-> 0]

Call(resource, path, params, timeout) ==
    [resource |-> resource, path |-> path, params |-> params, timeout |-> timeout]

-----------------------------------------------------------------------------
(* What each handler returns, given what its outbound GET produced. *)

\* search_patients, lines 93-102
search_patients_result(o) ==
    IF o.kind = "timeout" THEN RequestTimeout
    ELSE IF GetRaises(o) THEN InternalServerError
    ELSE IF RaiseForStatus(o) THEN FhirServerError(o.status)
    ELSE IF JsonRaises(o) THEN InternalServerError
    ELSE JsonBody(o.body[1])

\* get_patient, lines 109-118
get_patient_result(patient_id, o) ==
    IF GetRaises(o) THEN InternalServerError
    ELSE IF RaiseForStatus(o)
         THEN IF o.status = 404 THEN PatientNotFound(patient_id)
              ELSE FhirServerError(o.status)
    ELSE IF JsonRaises(o) THEN InternalServerError
    ELSE JsonBody(o.body[1])

\* get_allergies, lines 125-138
get_allergies_result(patient_id, o) ==
    IF GetRaises(o) THEN InternalServerError
    ELSE IF RaiseForStatus(o)
         THEN IF o.status = 404 THEN NoAllergiesFound(patient_id)
              ELSE FhirServerError(o.status)
    ELSE IF JsonRaises(o) THEN InternalServerError
    ELSE JsonBody(o.body[1])

\* requests.get(...).json() of get_medications and check_prescription raises:
\* there is no raise_for_status() on these paths.
GetJsonRaises(o) == GetRaises(o) \/ JsonRaises(o)

\* get_medications, lines 162-165
MedicationsBody(med_request, med_statement) ==
    [Blank EXCEPT !.status = 200, !.kind = "medications",
                  !.payload = Some(med_request), !.payload2 = Some(med_statement)]

-----------------------------------------------------------------------------
(* check_prescription: the allergy matcher, lines 185-210. *)

\* entry["resource"].get("code", {}).get("text", "").lower()
Substance(resource) == lower(Get(Get(resource.code, [text |-> None]).text, <<>>))

\* medication.lower() in substance
Matches(resource, medication) == Contains(lower(medication), Substance(resource))

\* reaction[0].get("severity", "unknown") if reaction else "unknown"
Severity(resource) ==
    LET reaction == Get(resource.reaction, <<>>)
    IN  IF Len(reaction) > 0 THEN Get(reaction[1].severity, "unknown") ELSE "unknown"

\* entry["resource"].get("note", [{}])[0] raises IndexError
NoteRaises(resource) == Len(Get(resource.note, <<[text |-> None]>>)) = 0

\* entry["resource"].get("note", [{}])[0].get("text", "No details")
Description(resource) == Get(Get(resource.note, <<[text |-> None]>>)[1].text, "No details")

\* One pass of the loop body raises: KeyError on entry["resource"], or
\* IndexError on the note list of a matching entry.
EntryRaises(entry, medication) ==
    \/ ~IsPresent(entry.resource)
    \/ Matches(entry.resource[1], medication) /\ NoteRaises(entry.resource[1])

Conflict(resource) ==
    [allergen |-> Substance(resource), severity |-> Severity(resource),
     description |-> Description(resource)]

RECURSIVE Conflicts(_, _)
Conflicts(allergies, medication) ==
    IF allergies = <<>> THEN <<>>
    ELSE LET resource == Head(allergies).resource[1]
         IN  (IF Matches(resource, medication) THEN <<Conflict(resource)>> ELSE <<>>)
                 \o Conflicts(Tail(allergies), medication)

Unsafe(conflicts) ==
    [Blank EXCEPT !.status = 200, !.kind = "verdict", !.safe = FALSE,
                  !.conflicts = Some(conflicts),
                  !.recommendation = "Do not prescribe - allergy conflict detected"]

Safe(patient_id, medication) ==
    [Blank EXCEPT !.status = 200, !.kind = "verdict", !.safe = TRUE,
                  !.recommendation = "is safe for patient (no known allergies found)",
                  !.id = patient_id, !.medication = medication]

\* The body of check_prescription after the fetch, on the decoded JSON.
match(allergies_response, patient_id, medication) ==
    LET allergies == Get(allergies_response.entry, <<>>)
    IN  IF \E i \in DOMAIN allergies : EntryRaises(allergies[i], medication)
        THEN InternalServerError
        ELSE LET conflicts == Conflicts(allergies, medication)
             IN  IF Len(conflicts) > 0 THEN Unsafe(conflicts)
                 ELSE Safe(patient_id, medication)

\* check_prescription, lines 179-213
check_prescription_result(patient_id, medication, o) ==
    IF GetJsonRaises(o) THEN InternalServerError
    ELSE match(o.body[1], patient_id, medication)

-----------------------------------------------------------------------------
(* Inputs of the model. *)

NoFields == [k \in OptionalKeys |-> None]

NoRequest ==
    [endpoint |-> "none", patient_id |-> <<>>, medication |-> <<>>,
     fields |-> NoFields, count |-> 10, page |-> 1]

\* One character more than max_length allows for "name".
TooLong == [i \in 1..(MaxLength("name") + 1) |-> "a"]

FieldValues == {None, Some(<<>>), Some(<<"a">>)}

SearchFields ==
    { f \in [OptionalKeys -> FieldValues \cup {Some(TooLong)}] :
        \A k \in OptionalKeys \ {"name"} : f[k] \in FieldValues }

Counts == {0, 1, 100, 101}

Pages == {0, 1, 2}

IdEndpoints == {"patient", "allergies", "medications", "check-prescription"}

\* The three of them that take the id from the path.
PathEndpoints == {"patient", "allergies", "medications"}

\* Decoded bodies of the pass-through endpoints (their content is not read).
PlainBodies == { [entry |-> None], [entry |-> Some(<<>>)] }

SampleResource ==
    [code |-> Some([text |-> Some(<<"A", "b">>)]),
     reaction |-> Some(<<[severity |-> Some("severe")]>>),
     note |-> Some(<<[text |-> Some("rash")]>>)]

SampleEntries ==
    { [resource |-> Some(SampleResource)],
      [resource |-> Some([code |-> None, reaction |-> None, note |-> None])],
      [resource |-> Some([SampleResource EXCEPT !.reaction = Some(<<>>), !.note = Some(<<>>)])],
      [resource |-> None] }

\* Decoded bodies the upstream may send for AllergyIntolerance.
AllergyBodies == BundlesOf(SampleEntries, MaxEntries)

Outcomes(bodies) ==
    {Timeout, ConnectionError}
        \cup { Response(s, b) : s \in Statuses, b \in {None} \cup { Some(x) : x \in bodies } }

PlainOutcomes == Outcomes(PlainBodies)

AllergyOutcomes == Outcomes(AllergyBodies)

-----------------------------------------------------------------------------
(* The request life cycle. *)

Init ==
    /\ pc = "idle"
    /\ req = NoRequest
    /\ checked = "none"
    /\ calls = <<>>
    /\ responses = <<>>
    /\ result = Blank

\* 422 of the framework: a Query(...) constraint of the signature is violated.
Unprocessable == [Blank EXCEPT !.status = 422, !.kind = "error", !.error = "validation error"]

Enter(r, accepted) ==
    /\ req' = r
    /\ pc' = IF accepted THEN "handler" ELSE "done"
    /\ result' = IF accepted THEN Blank ELSE Unprocessable
    /\ UNCHANGED <<checked, calls, responses>>

ReceiveRoot == pc = "idle" /\ Enter([NoRequest EXCEPT !.endpoint = "/"], TRUE)

ReceiveSearch ==
    /\ pc = "idle"
    /\ \E f \in SearchFields, c \in Counts, p \in Pages :
        Enter([NoRequest EXCEPT !.endpoint = "search-patients", !.fields = f,
                                !.count = c, !.page = p],
              SearchAccepted(f, c, p))

ReceiveById ==
    /\ pc = "idle"
    /\ \E e \in PathEndpoints, id \in Ids :
        Enter([NoRequest EXCEPT !.endpoint = e, !.patient_id = id], TRUE)

ReceivePrescription ==
    /\ pc = "idle"
    /\ \E id \in Ids, m \in Medications :
        Enter([NoRequest EXCEPT !.endpoint = "check-prescription", !.patient_id = id,
                                !.medication = m],
              PrescriptionAccepted(id, m))

\* root, lines 47-53
root ==
    /\ pc = "handler" /\ req.endpoint = "/"
    /\ result' = [Blank EXCEPT !.status = 200, !.kind = "health"]
    /\ pc' = "done"
    /\ UNCHANGED <<req, checked, calls, responses>>

\* One requests.get: the call is issued and the upstream answers with o.
Fetch(call, o) ==
    /\ calls' = Append(calls, call)
    /\ responses' = Append(responses, o)

\* search_patients, lines 76-102
search_patients ==
    /\ pc = "handler" /\ req.endpoint = "search-patients"
    /\ \E o \in PlainOutcomes :
        /\ Fetch(Call("Patient", None, search_params(req.fields, req.count), 15), o)
        /\ result' = search_patients_result(o)
    /\ pc' = "done"
    /\ UNCHANGED <<req, checked>>

\* "try: validate_fhir_id(patient_id)" that opens the four handlers taking
\* an id.  The HTTPException it raises is no requests HTTPError, so the
\* handler's "except Exception" clause catches it.
Validate(endpoint) ==
    /\ pc = "handler" /\ req.endpoint = endpoint
    /\ IF validate_fhir_id(req.patient_id)
       THEN /\ checked' = "passed"
            /\ pc' = "validated"
            /\ UNCHANGED result
       ELSE /\ checked' = "failed"
            /\ pc' = "done"
            /\ result' = InternalServerError
    /\ UNCHANGED <<req, calls, responses>>

\* The first requests.get reachable without the check having run.
MayFetchUnvalidated == pc \in {"handler", "validated"}

\* The handler's first requests.get follows validate_fhir_id in the try block:
\* it is reached only when the check has returned.
MayFetch == pc = "validated"

get_patient_validate == Validate("patient")

\* get_patient, lines 109-118
get_patient_fetch ==
    /\ MayFetch /\ req.endpoint = "patient"
    /\ \E o \in PlainOutcomes :
        /\ Fetch(Call("Patient", Some(req.patient_id), NoParams, 10), o)
        /\ result' = get_patient_result(req.patient_id, o)
    /\ pc' = "done"
    /\ UNCHANGED <<req, checked>>

get_allergies_validate == Validate("allergies")

PatientParam(patient_id) == [k \in {"patient"} |-> patient_id]

\* get_allergies, lines 125-138
get_allergies_fetch ==
    /\ MayFetch /\ req.endpoint = "allergies"
    /\ \E o \in PlainOutcomes :
        /\ Fetch(Call("AllergyIntolerance", None, PatientParam(req.patient_id), 10), o)
        /\ result' = get_allergies_result(req.patient_id, o)
    /\ pc' = "done"
    /\ UNCHANGED <<req, checked>>

get_medications_validate == Validate("medications")

\* get_medications going on to its second fetch whatever the first did.
AfterMedRequestAlways(o) == "statement"

\* Where get_medications goes after its first requests.get(...).json(): to
\* the except clause when it raised, to the second fetch otherwise.
AfterMedRequest(o) == IF GetJsonRaises(o) THEN "done" ELSE "statement"

ActiveParams(patient_id) ==
    [k \in {"patient", "status"} |-> IF k = "patient" THEN patient_id ELSE <<"active">>]

\* get_medications, lines 149-153 (and 166-168 when the fetch raises)
get_medications_request ==
    /\ MayFetch /\ req.endpoint = "medications"
    /\ \E o \in PlainOutcomes :
        /\ Fetch(Call("MedicationRequest", None, ActiveParams(req.patient_id), 10), o)
        /\ pc' = AfterMedRequest(o)
        /\ result' = IF GetJsonRaises(o) THEN InternalServerError ELSE result
    /\ UNCHANGED <<req, checked>>

\* get_medications, lines 156-168
get_medications_statement ==
    /\ pc = "statement" /\ req.endpoint = "medications"
    /\ \E o \in PlainOutcomes :
        /\ Fetch(Call("MedicationStatement", None, PatientParam(req.patient_id), 10), o)
        /\ result' = IF GetJsonRaises(o) \/ GetJsonRaises(responses[1])
                     THEN InternalServerError
                     ELSE MedicationsBody(responses[1].body[1], o.body[1])
    /\ pc' = "done"
    /\ UNCHANGED <<req, checked>>

check_prescription_validate == Validate("check-prescription")

PrescriptionFetch(outcomes) ==
    /\ MayFetch /\ req.endpoint = "check-prescription"
    /\ \E o \in outcomes :
        /\ Fetch(Call("AllergyIntolerance", None, PatientParam(req.patient_id), 10), o)
        /\ result' = check_prescription_result(req.patient_id, req.medication, o)
    /\ pc' = "done"
    /\ UNCHANGED <<req, checked>>

\* check_prescription, lines 179-213
check_prescription_fetch == PrescriptionFetch(AllergyOutcomes)

\* The response is sent; the next request starts from a clean slate (no state
\* is shared between requests).
Respond ==
    /\ pc = "done"
    /\ pc' = "idle"
    /\ req' = NoRequest
    /\ checked' = "none"
    /\ calls' = <<>>
    /\ responses' = <<>>
    /\ result' = Blank

Next ==
    \/ ReceiveRoot
    \/ ReceiveSearch
    \/ ReceiveById
    \/ ReceivePrescription
    \/ root
    \/ search_patients
    \/ get_patient_validate
    \/ get_patient_fetch
    \/ get_allergies_validate
    \/ get_allergies_fetch
    \/ get_medications_validate
    \/ get_medications_request
    \/ get_medications_statement
    \/ check_prescription_validate
    \/ check_prescription_fetch
    \/ Respond

Spec == Init /\ [][Next]_vars

-----------------------------------------------------------------------------
(* The matcher alone: check_prescription on every decoded allergy bundle of  *)
(* the bounded shape, the fetch having succeeded with status 200.           *)

MatchId == <<"a", "5">>

MatchReceive ==
    /\ pc = "idle"
    /\ \E m \in Medications :
        Enter([NoRequest EXCEPT !.endpoint = "check-prescription", !.patient_id = MatchId,
                                !.medication = m],
              PrescriptionAccepted(MatchId, m))

\* The upstream answers 200 with a parseable body.
Succeeds(bodies) == { Response(200, Some(b)) : b \in bodies }

MatchOutcomes == Succeeds(Bundles)

check_prescription_match == PrescriptionFetch(MatchOutcomes)

MatchNext ==
    \/ MatchReceive
    \/ check_prescription_validate
    \/ check_prescription_match
    \/ Respond

SpecMatch == Init /\ [][MatchNext]_vars

-----------------------------------------------------------------------------
(* Properties. *)

Done == pc = "done"

IdRequest == req.endpoint \in IdEndpoints

\* C1: in the four handlers that take an id, no outbound GET is issued
\* unless validate_fhir_id has run and passed: an id that fails the check
\* leaves the request without any outbound call, and every call that exists
\* was issued after the check passed.
C1_ValidateBeforeFetch ==
    IdRequest =>
        /\ checked = "failed" => calls = <<>>
        /\ ~validate_fhir_id(req.patient_id) => calls = <<>>
        /\ calls # <<>> => checked = "passed"

C1_Witness ==
    /\ Done /\ req.endpoint = "check-prescription"
    /\ checked = "failed" /\ req.patient_id = <<"a", "/">>
    /\ calls = <<>>

\* C2: a request whose id fails validate_fhir_id ends with status 400 and
\* the invalid-id message, never with the generic 500.
C2_InvalidIdIs400 ==
    (Done /\ IdRequest /\ checked = "failed") =>
        /\ result.status = 400
        /\ result.error = "Invalid ID format provided."
        /\ result # InternalServerError

\* C3: validate_fhir_id accepts exactly the non-empty strings all of whose
\* characters are in the allow-list A-Z a-z 0-9 - .
C3_AcceptsIffAllSafe ==
    (IdRequest /\ checked # "none") =>
        (checked = "passed" <=>
            (Len(req.patient_id) >= 1
                /\ \A i \in DOMAIN req.patient_id : req.patient_id[i] \in SafeChars))


\* The single fetch of check_prescription returned 200 with a decoded body.
AllergyFetchSucceeded ==
    /\ Done /\ req.endpoint = "check-prescription"
    /\ Len(responses) = 1
    /\ responses[1].kind = "response" /\ responses[1].status = 200
    /\ IsPresent(responses[1].body)

\* The entry list of that body ([] when the member is absent).
FetchedEntries == Get(responses[1].body[1].entry, <<>>)

\* The fields of an allergy entry as the specification reads them, every
\* missing level replaced by its default.
StatedText(entry) ==
    LET res  == Get(entry.resource, [code |-> None, note |-> None, reaction |-> None])
        code == Get(res.code, [text |-> None])
    IN  lower(Get(code.text, <<>>))

StatedSeverity(entry) ==
    LET res  == Get(entry.resource, [code |-> None, note |-> None, reaction |-> None])
        list == Get(res.reaction, <<>>)
    IN  IF Len(list) > 0 THEN Get(list[1].severity, "unknown") ELSE "unknown"

StatedNote(entry) ==
    LET res  == Get(entry.resource, [code |-> None, note |-> None, reaction |-> None])
        list == Get(res.note, <<>>)
    IN  IF Len(list) > 0 THEN Get(list[1].text, "No details") ELSE "No details"

StatedMatch(entry, medication) == Contains(lower(medication), StatedText(entry))

\* The matching entries, in upstream order.
StatedHits(entries, medication) ==
    SelectSeq(entries, LAMBDA e : StatedMatch(e, medication))

\* C4: when the allergy fetch succeeds, the verdict is unsafe exactly when
\* some entry's lower-cased substance text contains the lower-cased
\* medication name; the conflicts are then the matching entries in upstream
\* order, duplicates kept, each with its lower-cased substance, its first
\* reaction's severity (or "unknown") and its first note's text (or
\* "No details"); with no matching entry the verdict is safe, no conflicts.
\* (Stated for a non-empty medication name and bundles whose entries all
\* carry a resource.)
C4_ConflictsAreMatches ==
    (AllergyFetchSucceeded
        /\ req.medication # <<>>
        /\ \A i \in DOMAIN FetchedEntries : IsPresent(FetchedEntries[i].resource)) =>
        LET hits == StatedHits(FetchedEntries, req.medication)
        IN  /\ result.kind = "verdict"
            /\ result.safe <=> (hits = <<>>)
            /\ hits = <<>> => result.conflicts = None
            /\ hits # <<>> =>
                /\ IsPresent(result.conflicts)
                /\ Len(result.conflicts[1]) = Len(hits)
                /\ \A k \in DOMAIN hits :
                    /\ result.conflicts[1][k].allergen = StatedText(hits[k])
                    /\ result.conflicts[1][k].severity = StatedSeverity(hits[k])
                    /\ result.conflicts[1][k].description = StatedNote(hits[k])

\* C5: with the empty medication name and a non-empty entry list, the
\* result carries no conflict and is not the unsafe verdict.
C5_EmptyMedicationNoConflict ==
    (AllergyFetchSucceeded /\ Len(FetchedEntries) > 0 /\ req.medication = <<>>) =>
        /\ result.conflicts = None
        /\ ~(result.kind = "verdict" /\ ~result.safe)

\* C8: whatever nested fields the entries of the bundle lack, the result is
\* a safe or unsafe verdict, never the generic error.
C8_MalformedEntriesStillVerdict ==
    AllergyFetchSucceeded =>
        /\ result.kind = "verdict"
        /\ result.status # 500

\* C6: a request one of whose outbound fetches timed out ends with the
\* fixed "Request timeout" error and status 504.
C6_TimeoutIs504 ==
    (Done /\ \E i \in DOMAIN responses : responses[i].kind = "timeout") =>
        /\ result.status = 504
        /\ result.kind = "error"
        /\ result.error = "Request timeout"

NonSuccess(o) == o.kind = "response" /\ ~(o.status >= 200 /\ o.status < 300)

\* C7: a request one of whose outbound fetches was answered with a non-2xx
\* status ends with an error carrying that status (404 for an upstream 404),
\* never with a success body built from that response.
C7_StatusClassifiedFirst ==
    (Done /\ \E i \in DOMAIN responses : NonSuccess(responses[i])) =>
        LET i == CHOOSE j \in DOMAIN responses :
                    /\ NonSuccess(responses[j])
                    /\ \A k \in 1..(j - 1) : ~NonSuccess(responses[k])
        IN  /\ result.kind = "error"
            /\ result.status = responses[i].status

CalledResources(cs) == [i \in DOMAIN cs |-> cs[i].resource]

\* The requests.get(...).json() of a fetch completed: a response arrived
\* and its body was decoded.
Completed(o) == o.kind = "response" /\ IsPresent(o.body)

\* C9 as stated: with a valid id, /medications issues both of its fetches,
\* once each, also when one of them fails.
C9_BothFetchesAlways ==
    (Done /\ req.endpoint = "medications" /\ checked = "passed") =>
        CalledResources(calls) = <<"MedicationRequest", "MedicationStatement">>

\* C9 amended: no upstream call is repeated within a request; with a valid
\* id the handler's first call is issued exactly once; /medications issues
\* the MedicationStatement fetch exactly once if the MedicationRequest fetch
\* returned a decoded body and not at all if it raised, and assembles its
\* response only after both fetches completed.
C9_NoRetrySequentialFetches ==
    /\ Len(calls) = Len(responses)
    /\ \A i, j \in DOMAIN calls : i # j => calls[i] # calls[j]
    /\ req.endpoint # "medications" => Len(calls) <= 1
    /\ (Done /\ req.endpoint = "search-patients" /\ result.status # 422) => Len(calls) = 1
    /\ (Done /\ IdRequest /\ checked = "passed") => Len(calls) >= 1
    /\ (Done /\ req.endpoint = "medications" /\ checked = "passed") =>
          CalledResources(calls) =
              IF Completed(responses[1])
              THEN <<"MedicationRequest", "MedicationStatement">>
              ELSE <<"MedicationRequest">>
    /\ result.kind = "medications" =>
          /\ Len(responses) = 2
          /\ Completed(responses[1]) /\ Completed(responses[2])

C9_Witness ==
    /\ Done /\ req.endpoint = "medications" /\ checked = "passed"
    /\ Len(calls) = 1 /\ responses[1].kind = "timeout"
    /\ result = InternalServerError

\* C10: the mapping search_patients sends upstream holds "_count" with the
\* requested count, which lies in 1..100, and, for each optional field, that
\* key with the supplied value exactly when the field was supplied and is not
\* empty; no other key, no empty value, and nothing that depends on _page.
C10_SearchParamsMapping ==
    (req.endpoint = "search-patients" /\ calls # <<>>) =>
        LET p == calls[1].params
        IN  /\ DOMAIN p = {"_count"} \cup
                    { k \in OptionalKeys :
                        req.fields[k] # None /\ req.fields[k] # Some(<<>>) }
            /\ p["_count"] = req.count
            /\ req.count \in 1..100
            /\ \A k \in DOMAIN p \ {"_count"} :
                  /\ k \in OptionalKeys
                  /\ p[k] = req.fields[k][1]
                  /\ p[k] # <<>>

C10_Witness ==
    /\ Done /\ req.endpoint = "search-patients" /\ Len(calls) = 1
    /\ req.fields["name"] = Some(<<>>)
    /\ req.fields["family"] = Some(<<"a">>)
    /\ req.fields["_id"] = None
    /\ req.page = 2 /\ req.count = 100
    /\ DOMAIN calls[1].params = {"_count", "family"}

====
